---- MODULE Spec2Model ----
(***************************************************************************)
(* Request pipeline of the FastAPI template (src/app.py,                   *)
(* src/app/middlewares/__init__.py, src/app/models/errors.py).             *)
(*                                                                         *)
(* A request travels down the ASGI application stack                       *)
(*   ServerErrorMiddleware, user middleware..., ExceptionMiddleware, router *)
(* and its response (or the exception raised for it) travels back up.      *)
(* Requests are cooperative tasks: they interleave at every await.         *)
(***************************************************************************)
EXTENDS Integers, Sequences, FiniteSets, TLC

\* The requests in flight and what the middleware stack does with them.
VARIABLES phase, pos, headers, state_request_id, mw_request_id,
          log_request_id, outcome, flow, events, uuid_count

\* The application: its settings, app.state, the storage handle of
\* app.services.db, the DatabaseHandler of logger "app", the clock, what the
\* log sinks and the collaborators have received, and the position of the
\* lifespan (startup, serving, shutdown).
VARIABLES settings, pc, pending, db_ready, cache_ready, db_engine,
          engine_instance, redis, tracer_provider,
          is_active, table_created, last_error_time, now,
          log_calls, console, file, db_writes, schema_attempts, stderr, raised,
          diagnostics, initialized, init_result, released, probe_response, served

requestVars == <<phase, pos, headers, state_request_id, mw_request_id,
                 log_request_id, outcome, flow, events, uuid_count>>

appVars == <<settings, pc, pending, db_ready, cache_ready, db_engine,
             engine_instance, redis, tracer_provider,
             is_active, table_created, last_error_time, now,
             log_calls, console, file, db_writes, schema_attempts, stderr, raised,
             diagnostics, initialized, init_result, released, probe_response, served>>

\* The demo item store of app.api.example.get_example: the module's list, the
\* number of requests it has served and the answer to the last of them.
VARIABLES items, item_ops, item_response

storeVars == <<items, item_ops, item_response>>

\* Pagination: the query parameters of a paged request, the length of the list
\* that is paged, how far the request has got, and the metadata, the slice and
\* the answer computed for it.
VARIABLES paging, total, page_pc, page_meta, page_slice, page_response

pageVars == <<paging, total, page_pc, page_meta, page_slice, page_response>>

\* Logger "app" and the threads that log through it: the handlers of the
\* logger, where each thread is in its logging call, the records each has
\* logged, and the holder of the DatabaseHandler's lock.
VARIABLES logger_handlers, thread_pc, thread_logged, handler_lock

threadVars == <<logger_handlers, thread_pc, thread_logged, handler_lock>>

\* What is neither a request in the middleware stack nor the lifespan.
restVars == <<storeVars, pageVars, threadVars>>

vars == <<requestVars, appVars, restVars>>

\* ------------------------------------------------------------------ bounds

\* Largest elapsed time, in milliseconds, a request is observed to take.
MaxElapsed == 1

\* The requests in flight together: two cooperative tasks, which interleave
\* at every await. Nothing a request does reads another request's data.
Requests == {1, 2}

\* The most log calls and probes the application serves between startup and
\* shutdown.
MaxServed == 2

\* The longest time, in seconds, the application is observed for.
MaxTime == 6

\* ------------------------------------------------------------------ values

\* DatabaseHandler.error_cooldown, in seconds.
error_cooldown == 5

\* Python's None, and JSON null in a response body.
None == "<None>"

\* str(uuid.uuid4()): the n-th call returns the n-th of these values.
Uuids == <<"uuid-1", "uuid-2", "uuid-3", "uuid-4">>

uuid4(n) == Uuids[n + 1]

\* str.lower() on the header names of the model.
lower(k) ==
    CASE k = "Authorization" -> "authorization"
      [] k = "COOKIE" -> "cookie"
      [] k = "x-api-key" -> "x-api-key"
      [] k = "User-Agent" -> "user-agent"
      [] k = "X-Request-ID" -> "x-request-id"
      [] OTHER -> k

\* The value a client sends for a header other than X-Request-ID.
HeaderValue(k) ==
    CASE k = "Authorization" -> "Bearer demo-token"
      [] k = "COOKIE" -> "session=1"
      [] k = "x-api-key" -> "key-1"
      [] OTHER -> "curl/8"

\* The header sets clients send: each a function from names to values.
MakeHeaders(names, xrid) ==
    [k \in names \cup (IF xrid = None THEN {} ELSE {"X-Request-ID"}) |->
        IF k = "X-Request-ID" THEN xrid ELSE HeaderValue(k)]

\* The headers of the requests clients send: header names as the client typed
\* them, with X-Request-ID absent (None), empty or set.
InboundHeaders ==
    { MakeHeaders({}, None),
      MakeHeaders({"User-Agent"}, "rid-A"),
      MakeHeaders({"Authorization", "User-Agent"}, ""),
      MakeHeaders({"COOKIE", "x-api-key"}, "rid-A"),
      MakeHeaders({"Authorization", "COOKIE", "x-api-key", "User-Agent"}, None) }

\* request.headers.get(name): case-insensitive lookup, None when absent.
HeadersGet(h, name) ==
    IF \E k \in DOMAIN h : lower(k) = lower(name)
    THEN h[CHOOSE k \in DOMAIN h : lower(k) = lower(name)]
    ELSE None

\* ------------------------------------------------------------------ stack

\* The order in which middlewares(app) registers the HTTP middleware.
Registered == <<"cors", "gzip", "security_headers", "request_id",
                "rate_limiter", "structured_logging">>

\* app.add_middleware / @app.middleware("http") put the new middleware in
\* front of those registered before it: the last one registered is outermost.
RECURSIVE BuildStack(_, _)
BuildStack(registered, stack) ==
    IF registered = <<>> THEN stack
    ELSE BuildStack(Tail(registered), <<Head(registered)>> \o stack)

UserMiddleware == BuildStack(Registered, <<>>)

\* The whole application, outermost first. The handler registered for
\* Exception runs in server_error; the handlers for RequestValidationError and
\* HTTPException run in exception, next to the router.
AppStack == <<"server_error">> \o UserMiddleware \o <<"exception", "router">>

\* Does this component run code of the application when a request enters it?
StopsDown(name) == name \in {"structured_logging", "request_id", "router"}

\* Does this component run code of the application when f comes back up?
\* A response passes the exception layers untouched; an exception passes every
\* middleware that has no except clause and every layer with no handler for it.
StopsUp(name, f) ==
    CASE name = "exception" ->
            f.kind = "raise" /\ f.exc.type \in {"RequestValidationError", "HTTPException"}
      [] name = "request_id" -> f.kind = "response"
      [] name = "structured_logging" -> TRUE
      [] name = "server_error" -> f.kind = "raise"
      [] OTHER -> FALSE

\* The next position below i where application code runs.
NextDown(i) ==
    CHOOSE j \in (i + 1)..Len(AppStack) :
        /\ StopsDown(AppStack[j])
        /\ \A k \in (i + 1)..(j - 1) : ~StopsDown(AppStack[k])

\* The next position above i where application code runs for f; 0: the
\* response leaves the application.
NextUp(i, f) ==
    IF \E j \in 1..(i - 1) : StopsUp(AppStack[j], f)
    THEN CHOOSE j \in 1..(i - 1) :
            /\ StopsUp(AppStack[j], f)
            /\ \A k \in (j + 1)..(i - 1) : ~StopsUp(AppStack[k], f)
    ELSE 0

At(r, name, ph) == phase[r] = ph /\ pos[r] \in 1..Len(AppStack) /\ AppStack[pos[r]] = name

\* Move r up from its position, carrying f.
GoUp(r, f) ==
    LET j == NextUp(pos[r], f) IN
    /\ flow' = [flow EXCEPT ![r] = f]
    /\ pos' = [pos EXCEPT ![r] = j]
    /\ phase' = [phase EXCEPT ![r] = IF j = 0 THEN "sent" ELSE "up"]

NoFlow == [kind |-> "none"]

\* The collaborators the lifespan initializes and releases.
Collaborators == {"storage", "cache", "tracing"}

\* The Settings the class gives when the environment sets nothing, with the
\* fields the logger configuration reads from it.
DefaultSettings ==
    [db_enabled |-> FALSE, db_url |-> None, cache_enabled |-> FALSE,
     cache_url |-> None, tracing_enabled |-> FALSE,
     db_logging_enabled |-> FALSE, db_logging_level |-> "INFO"]

\* The application as the module app.py leaves it, before the lifespan starts.
AppInit(s) ==
    /\ settings = s
    /\ pc = "startup"
    /\ pending = <<>>
    /\ db_ready = FALSE
    /\ cache_ready = FALSE
    /\ db_engine = None
    /\ engine_instance = None
    /\ redis = None
    /\ tracer_provider = None
    /\ is_active = FALSE
    /\ table_created = FALSE
    /\ last_error_time = 0
    /\ now = error_cooldown
    /\ log_calls = 0
    /\ console = 0
    /\ file = 0
    /\ db_writes = 0
    /\ schema_attempts = <<>>
    /\ stderr = <<>>
    /\ raised = FALSE
    /\ diagnostics = 0
    /\ initialized = <<>>
    /\ init_result = [c \in Collaborators |-> "none"]
    /\ released = <<>>
    /\ probe_response = [probe |-> "none"]
    /\ served = 0

\* No request has arrived.
RequestsInit ==
    /\ phase = [r \in Requests |-> "new"]
    /\ pos = [r \in Requests |-> 0]
    /\ headers = [r \in Requests |-> MakeHeaders({}, None)]
    /\ state_request_id = [r \in Requests |-> None]
    /\ mw_request_id = [r \in Requests |-> None]
    /\ log_request_id = [r \in Requests |-> None]
    /\ outcome = [r \in Requests |-> NoFlow]
    /\ flow = [r \in Requests |-> NoFlow]
    /\ events = [r \in Requests |-> <<>>]
    /\ uuid_count = 0

\* The item store as the import of get_example leaves it: items = [].
StoreInit ==
    /\ items = <<>>
    /\ item_ops = 0
    /\ item_response = [op |-> "none"]

\* No paged request: PageQuery's defaults, nothing computed.
PageIdle ==
    /\ paging = [page |-> 1, page_size |-> 20]
    /\ total = 0
    /\ page_pc = "idle"
    /\ page_meta = [kind |-> "none"]
    /\ page_slice = <<>>
    /\ page_response = [kind |-> "none"]

\* The threads that log through logger "app".
Threads == {"t1", "t2"}

\* The handlers setup_logger adds to logger "app", in the order it adds them.
HandlersFor(s) ==
    <<"console", "file">> \o (IF s.db_logging_enabled THEN <<"database">> ELSE <<>>)

\* Logger "app" as the import of app.utils has set it up, nobody logging.
ThreadIdle ==
    /\ logger_handlers = HandlersFor(settings)
    /\ thread_pc = [t \in Threads |-> "idle"]
    /\ thread_logged = [t \in Threads |-> 0]
    /\ handler_lock = None

RestInit == StoreInit /\ PageIdle /\ ThreadIdle

Init == RequestsInit /\ AppInit(DefaultSettings) /\ RestInit

\* A client sends a request; it enters the application stack.
Arrive(r) ==
    /\ phase[r] = "new"
    /\ \E h \in InboundHeaders : headers' = [headers EXCEPT ![r] = h]
    /\ phase' = [phase EXCEPT ![r] = "down"]
    /\ pos' = [pos EXCEPT ![r] = NextDown(0)]
    /\ UNCHANGED <<state_request_id, mw_request_id, log_request_id, outcome,
                   flow, events, uuid_count>>

\* ------------------------------------------------------- request logging

SensitiveHeaders == {"authorization", "cookie", "x-api-key"}

\* SanitizeHeaders comparing the names as sent, without k.lower().
SanitizeHeaders_case_sensitive(h) ==
    [k \in {n \in DOMAIN h : n \notin SensitiveHeaders} |-> h[k]]

\* {k: v for k, v in request.headers.items() if k.lower() not in (...)}
SanitizeHeaders(h) ==
    [k \in {n \in DOMAIN h : lower(n) \notin SensitiveHeaders} |-> h[k]]

\* The records the logging middleware writes before it calls the next stage.
StartEvents(rid, h) ==
    << [type |-> "separator", level |-> "INFO", request_id |-> rid],
       [type |-> "request_start", level |-> "INFO", request_id |-> rid,
        headers |-> SanitizeHeaders(h)] >>

\* _logging_middleware up to its await call_next(request).
LoggingEnter(r) ==
    /\ At(r, "structured_logging", "down")
    /\ log_request_id' = [log_request_id EXCEPT ![r] = state_request_id[r]]
    /\ events' = [events EXCEPT ![r] = @ \o StartEvents(state_request_id[r], headers[r])]
    /\ pos' = [pos EXCEPT ![r] = NextDown(pos[r])]
    /\ UNCHANGED <<phase, headers, state_request_id, mw_request_id, outcome,
                   flow, uuid_count>>

\* CompleteLevel with the lower limit of the 4xx class excluded.
CompleteLevel_above_400(status_code) ==
    IF 500 <= status_code /\ status_code < 600 THEN "ERROR"
    ELSE IF 400 < status_code /\ status_code < 500 THEN "WARNING"
    ELSE "INFO"

\* The severity of the complete event.
CompleteLevel(status_code) ==
    IF 500 <= status_code /\ status_code < 600 THEN "ERROR"
    ELSE IF 400 <= status_code /\ status_code < 500 THEN "WARNING"
    ELSE "INFO"

CompleteEvent(rid, response, latency_ms) ==
    [type |-> "request_complete", level |-> CompleteLevel(response.status),
     request_id |-> rid, status_code |-> response.status, latency_ms |-> latency_ms]

\* str(e) of an exception that is not an HTTPException: its message.
Str(exc) == exc.msg

ErrorEvent(rid, exc, latency_ms) ==
    [type |-> "request_error", level |-> "ERROR", request_id |-> rid,
     error |-> Str(exc), latency_ms |-> latency_ms]

\* LoggingExit logging the complete event in a finally clause: after the
\* error event too.
LoggingExit_finally(r) ==
    /\ At(r, "structured_logging", "up")
    /\ \E latency_ms \in 0..MaxElapsed :
          events' = [events EXCEPT ![r] =
              IF flow[r].kind = "response"
              THEN Append(@, CompleteEvent(log_request_id[r], flow[r], latency_ms))
              ELSE @ \o << ErrorEvent(log_request_id[r], flow[r].exc, latency_ms),
                           [type |-> "request_complete", level |-> "ERROR",
                            request_id |-> log_request_id[r], status_code |-> 500,
                            latency_ms |-> latency_ms] >>]
    /\ GoUp(r, flow[r])
    /\ UNCHANGED <<headers, state_request_id, mw_request_id, log_request_id,
                   outcome, uuid_count>>

\* LoggingExit answering the exception itself with a 500 response, as
\* catch_exceptions_middleware does, where it should raise.
LoggingExit_swallow(r) ==
    /\ At(r, "structured_logging", "up")
    /\ \E latency_ms \in 0..MaxElapsed :
          events' = [events EXCEPT ![r] = Append(@,
              IF flow[r].kind = "response"
              THEN CompleteEvent(log_request_id[r], flow[r], latency_ms)
              ELSE ErrorEvent(log_request_id[r], flow[r].exc, latency_ms))]
    /\ GoUp(r, IF flow[r].kind = "response" THEN flow[r]
               ELSE [kind |-> "response", status |-> 500, xrid |-> None,
                     body |-> [kind |-> "plain", detail |-> Str(flow[r].exc)]])
    /\ UNCHANGED <<headers, state_request_id, mw_request_id, log_request_id,
                   outcome, uuid_count>>

\* _logging_middleware after call_next: the try branch logs the complete
\* event and returns the response, the except branch logs the error event
\* and raises the exception again.
LoggingExit(r) ==
    /\ At(r, "structured_logging", "up")
    /\ \E latency_ms \in 0..MaxElapsed :
          events' = [events EXCEPT ![r] = Append(@,
              IF flow[r].kind = "response"
              THEN CompleteEvent(log_request_id[r], flow[r], latency_ms)
              ELSE ErrorEvent(log_request_id[r], flow[r].exc, latency_ms))]
    /\ GoUp(r, flow[r])
    /\ UNCHANGED <<headers, state_request_id, mw_request_id, log_request_id,
                   outcome, uuid_count>>

\* ------------------------------------------------------------ request id

\* request.headers.get("X-Request-ID") or str(uuid.uuid4())
ResolveRequestId(h, n) ==
    LET x == HeadersGet(h, "X-Request-ID") IN
    IF x # None /\ x # "" THEN x ELSE uuid4(n)

\* _request_id_middleware up to its await call_next(request).
RequestIdEnter(r) ==
    LET x == HeadersGet(headers[r], "X-Request-ID")
        request_id == ResolveRequestId(headers[r], uuid_count) IN
    /\ At(r, "request_id", "down")
    /\ uuid_count' = IF x # None /\ x # "" THEN uuid_count ELSE uuid_count + 1
    /\ mw_request_id' = [mw_request_id EXCEPT ![r] = request_id]
    /\ state_request_id' = [state_request_id EXCEPT ![r] = request_id]
    /\ pos' = [pos EXCEPT ![r] = NextDown(pos[r])]
    /\ UNCHANGED <<phase, headers, log_request_id, outcome, flow, events>>

\* _request_id_middleware after call_next returned a response.
RequestIdExit(r) ==
    /\ At(r, "request_id", "up")
    /\ flow[r].kind = "response"
    /\ GoUp(r, [flow[r] EXCEPT !.xrid = mw_request_id[r]])
    /\ UNCHANGED <<headers, state_request_id, mw_request_id, log_request_id,
                   outcome, events, uuid_count>>

\* -------------------------------------------------------------- endpoints

\* Statuses of the responses the router returns without an exception: 200 from
\* an endpoint, 307 when it redirects /items to the route /items/.
OkStatuses == {200, 307}

\* Statuses an endpoint raises HTTPException with: those of the raise sites
\* (400, 401, 404, 500, 503) and others the handler accepts just as well.
HttpStatuses == {400, 401, 403, 404, 418, 499, 500, 503, 599}

NoDetail == [kind |-> "none"]

\* The detail of an HTTPException: a string (error_hello_world), or a dict
\* with a code and a message (read_item); the code need not match the status.
StrDetail == [kind |-> "str", text |-> "Bad Request"]

DictDetail == [kind |-> "dict", code |-> "E_NOT_FOUND", message |-> "Item not found"]

HttpException(s, d) == [type |-> "HTTPException", status_code |-> s, detail |-> d]

\* The HTTPExceptions endpoints raise.
HttpExceptions ==
    { HttpException(s, DictDetail) : s \in HttpStatuses }
    \cup { HttpException(s, StrDetail) : s \in {400, 500} }

SuccessBody == [kind |-> "success", code |-> "OK", message |-> "success"]

\* What an endpoint (with the framework's parsing of its arguments) does
\* with a request: it returns a response or raises.
EndpointOutcomes ==
    { [kind |-> "response", status |-> s, xrid |-> None, body |-> SuccessBody] :
          s \in OkStatuses }
    \cup { [kind |-> "raise",
            exc |-> [type |-> "RequestValidationError", errors |-> "field required"]] }
    \cup { [kind |-> "raise", exc |-> e] : e \in HttpExceptions }
    \cup { [kind |-> "raise", exc |-> [type |-> "RuntimeError", msg |-> "boom"]] }

\* The router calls the endpoint.
Endpoint(r) ==
    /\ At(r, "router", "down")
    /\ \E o \in EndpointOutcomes :
          /\ outcome' = [outcome EXCEPT ![r] = o]
          /\ GoUp(r, o)
    /\ UNCHANGED <<headers, state_request_id, mw_request_id, log_request_id,
                   events, uuid_count>>

\* ------------------------------------------------------ error translation

ErrorCodes == {"E_NOT_FOUND", "E_VALIDATION", "E_AUTH_FAILED", "E_FORBIDDEN",
               "E_SERVER_ERROR", "E_BAD_REQUEST"}

\* from_status with the upper limit of the 5xx class excluded.
from_status_below_599(status_code) ==
    IF status_code = 400 THEN "E_BAD_REQUEST"
    ELSE IF status_code = 401 THEN "E_AUTH_FAILED"
    ELSE IF status_code = 403 THEN "E_FORBIDDEN"
    ELSE IF status_code = 404 THEN "E_NOT_FOUND"
    ELSE IF 500 <= status_code /\ status_code < 599 THEN "E_SERVER_ERROR"
    ELSE "E_BAD_REQUEST"

\* ErrorCode.from_status(status_code).value
from_status(status_code) ==
    IF status_code = 400 THEN "E_BAD_REQUEST"
    ELSE IF status_code = 401 THEN "E_AUTH_FAILED"
    ELSE IF status_code = 403 THEN "E_FORBIDDEN"
    ELSE IF status_code = 404 THEN "E_NOT_FOUND"
    ELSE IF 500 <= status_code /\ status_code <= 599 THEN "E_SERVER_ERROR"
    ELSE "E_BAD_REQUEST"

\* ErrorResponse(code, message, detail).model_dump() with request_id added.
ErrorBody(code, message, detail, request_id) ==
    [kind |-> "error", code |-> code, message |-> message, detail |-> detail,
     request_id |-> request_id]

\* ValidationResponse with its code taken from the status, as the handler
\* for HTTPException takes it.
ValidationResponse_from_status(exc, request_id) ==
    [kind |-> "response", status |-> 422, xrid |-> None,
     body |-> ErrorBody(from_status(422), "Validation error",
                        [kind |-> "errors", text |-> exc.errors], request_id)]

\* The response _validation_exception_handler returns.
ValidationResponse(exc, request_id) ==
    [kind |-> "response", status |-> 422, xrid |-> None,
     body |-> ErrorBody("E_VALIDATION", "Validation error",
                        [kind |-> "errors", text |-> exc.errors], request_id)]

\* The response _http_exception_handler returns.
HttpErrorResponse(exc, request_id) ==
    LET message == IF exc.detail.kind = "str" THEN exc.detail.text
                   ELSE IF exc.detail.kind = "dict" THEN exc.detail.message
                   ELSE "HTTP error"
        detail == IF exc.detail.kind = "str" THEN NoDetail ELSE exc.detail IN
    [kind |-> "response", status |-> exc.status_code, xrid |-> None,
     body |-> ErrorBody(from_status(exc.status_code), message, detail, request_id)]

\* The response _unhandled_exception_handler returns.
UnhandledResponse(exc, request_id) ==
    [kind |-> "response", status |-> 500, xrid |-> None,
     body |-> ErrorBody("E_SERVER_ERROR", "Internal server error",
                        [kind |-> "str", text |-> Str(exc)], request_id)]

\* The record an exception handler writes with http_logger.exception.
HandlerEvent(type, request_id) ==
    [type |-> type, level |-> "ERROR", request_id |-> request_id]

\* _validation_exception_handler, run by the exception layer next to the router.
ValidationExceptionHandler(r) ==
    /\ At(r, "exception", "up")
    /\ flow[r].kind = "raise" /\ flow[r].exc.type = "RequestValidationError"
    /\ events' = [events EXCEPT ![r] =
                    Append(@, HandlerEvent("validation_error", state_request_id[r]))]
    /\ GoUp(r, ValidationResponse(flow[r].exc, state_request_id[r]))
    /\ UNCHANGED <<headers, state_request_id, mw_request_id, log_request_id,
                   outcome, uuid_count>>

\* _http_exception_handler, run by the exception layer next to the router.
HttpExceptionHandler(r) ==
    /\ At(r, "exception", "up")
    /\ flow[r].kind = "raise" /\ flow[r].exc.type = "HTTPException"
    /\ events' = [events EXCEPT ![r] =
                    Append(@, HandlerEvent("http_exception", state_request_id[r]))]
    /\ GoUp(r, HttpErrorResponse(flow[r].exc, state_request_id[r]))
    /\ UNCHANGED <<headers, state_request_id, mw_request_id, log_request_id,
                   outcome, uuid_count>>

\* _unhandled_exception_handler, run by the outermost layer: its response
\* goes to the client without passing any middleware.
UnhandledExceptionHandler(r) ==
    /\ At(r, "server_error", "up")
    /\ flow[r].kind = "raise"
    /\ events' = [events EXCEPT ![r] =
                    Append(@, HandlerEvent("unhandled_error", state_request_id[r]))]
    /\ GoUp(r, UnhandledResponse(flow[r].exc, state_request_id[r]))
    /\ UNCHANGED <<headers, state_request_id, mw_request_id, log_request_id,
                   outcome, uuid_count>>

\* A step of a request; the lifespan stands still meanwhile.
Next ==
    \E r \in Requests :
        \/ Arrive(r) /\ UNCHANGED <<appVars, restVars>>
        \/ LoggingEnter(r) /\ UNCHANGED <<appVars, restVars>>
        \/ RequestIdEnter(r) /\ UNCHANGED <<appVars, restVars>>
        \/ Endpoint(r) /\ UNCHANGED <<appVars, restVars>>
        \/ ValidationExceptionHandler(r) /\ UNCHANGED <<appVars, restVars>>
        \/ HttpExceptionHandler(r) /\ UNCHANGED <<appVars, restVars>>
        \/ RequestIdExit(r) /\ UNCHANGED <<appVars, restVars>>
        \/ LoggingExit(r) /\ UNCHANGED <<appVars, restVars>>
        \/ UnhandledExceptionHandler(r) /\ UNCHANGED <<appVars, restVars>>

Spec == Init /\ [][Next]_vars

\* ---------------------------------------------------------------- claims

Sent(r) == phase[r] = "sent"

\* The start, complete and error records of the logging middleware for r.
MiddlewareEvents(r) ==
    SelectSeq(events[r], LAMBDA e :
        e.type \in {"request_start", "request_complete", "request_error"})

EventsOfType(r, type) == SelectSeq(events[r], LAMBDA e : e.type = type)

\* The X-Request-ID value the client sent, None when it sent none; a header
\* with an empty value supplies no id.
Supplied(r) ==
    LET x == HeadersGet(headers[r], "X-Request-ID") IN IF x = "" THEN None ELSE x

Generated == {Uuids[i] : i \in 1..Len(Uuids)}

\* C1: the X-Request-ID header of every response equals the inbound header
\* when one is supplied, and otherwise a generated value that no other
\* request's generated value equals.
C1_RequestIdEchoed ==
    \A r \in Requests :
        Sent(r) =>
            IF Supplied(r) # None
            THEN flow[r].xrid = Supplied(r)
            ELSE /\ flow[r].xrid \in Generated
                 /\ \A q \in Requests \ {r} :
                        Sent(q) /\ Supplied(q) = None => flow[q].xrid # flow[r].xrid

\* C2: every start, complete and error record of the logging middleware
\* carries the correlation id resolved for its request, the value echoed in
\* the X-Request-ID response header.
C2_EventsCarryRequestId ==
    \A r \in Requests :
        Sent(r) =>
            \A i \in 1..Len(MiddlewareEvents(r)) :
                MiddlewareEvents(r)[i].request_id = mw_request_id[r]

\* The texts an exception carries.
ExcTexts(exc) ==
    CASE exc.type = "HTTPException" ->
            IF exc.detail.kind = "str" THEN {exc.detail.text} ELSE {exc.detail.message}
      [] exc.type = "RequestValidationError" -> {exc.errors}
      [] OTHER -> {exc.msg}

\* The texts in the message and the detail of an error body.
BodyTexts(body) ==
    {body.message} \cup
    (CASE body.detail.kind = "none" -> {}
       [] body.detail.kind = "dict" -> {body.detail.message}
       [] OTHER -> {body.detail.text})

\* C3: every error response with a status in 500..599 has body code
\* SERVER_ERROR and a message and detail free of the exception's text.
C3_ServerErrorsOpaque ==
    \A r \in Requests :
        Sent(r) /\ outcome[r].kind = "raise" /\ flow[r].status \in 500..599 =>
            /\ flow[r].body.code = "E_SERVER_ERROR"
            /\ BodyTexts(flow[r].body) \cap ExcTexts(outcome[r].exc) = {}

\* The status-to-code table of the specification.
CodeOfStatus(s) ==
    CASE s = 400 -> "E_BAD_REQUEST"
      [] s = 401 -> "E_AUTH_FAILED"
      [] s = 403 -> "E_FORBIDDEN"
      [] s = 404 -> "E_NOT_FOUND"
      [] s \in 500..599 -> "E_SERVER_ERROR"
      [] OTHER -> "E_BAD_REQUEST"

\* The integers from_status is probed on.
ProbeStatuses == 90..610

\* The request raised an HTTPException and its handler has answered.
HttpErrorAnswered(r) ==
    /\ outcome[r].kind = "raise" /\ outcome[r].exc.type = "HTTPException"
    /\ flow[r].kind = "response"

\* from_status agrees with the table on every probed status.
FromStatusFollowsTable == \A s \in ProbeStatuses : from_status(s) = CodeOfStatus(s)

\* C4: from_status follows the table on every status, and the body code of
\* the response to an HTTPException is from_status of the response's status,
\* whatever code the exception's detail carries.
C4_CodeFromStatus ==
    /\ FromStatusFollowsTable
    /\ \A r \in Requests :
          HttpErrorAnswered(r) =>
              /\ flow[r].status = outcome[r].exc.status_code
              /\ flow[r].body.kind = "error"
              /\ flow[r].body.code = CodeOfStatus(flow[r].status)

C4_Witness ==
    \E r \in Requests :
        /\ Sent(r) /\ HttpErrorAnswered(r)
        /\ flow[r].status = 403
        /\ outcome[r].exc.detail.kind = "dict"
        /\ outcome[r].exc.detail.code = "E_NOT_FOUND"
        /\ flow[r].body.code = "E_FORBIDDEN"

\* The request failed validation and the handler has answered.
ValidationAnswered(r) ==
    /\ outcome[r].kind = "raise" /\ outcome[r].exc.type = "RequestValidationError"
    /\ flow[r].kind = "response"

\* C5: a request validation failure yields status 422 with body code
\* VALIDATION.
C5_ValidationIs422 ==
    \A r \in Requests :
        ValidationAnswered(r) =>
            /\ flow[r].status = 422
            /\ flow[r].body.kind = "error"
            /\ flow[r].body.code = "E_VALIDATION"

C5_Witness ==
    \E r \in Requests :
        Sent(r) /\ ValidationAnswered(r) /\ flow[r].body.code = "E_VALIDATION"

\* C6: in every error response the request_id of the body equals the
\* correlation id resolved for the request and the X-Request-ID header of
\* that response.
C6_BodyRequestIdMatchesHeader ==
    \A r \in Requests :
        Sent(r) /\ flow[r].body.kind = "error" =>
            /\ flow[r].body.request_id = mw_request_id[r]
            /\ flow[r].body.request_id = flow[r].xrid

\* What the logging middleware got from the next stage was an exception: the
\* endpoint raised one that no handler next to the router answers.
NextStageRaised(r) ==
    outcome[r].kind = "raise" /\ ~StopsUp("exception", outcome[r])

\* The logging middleware has finished with r.
LoggingDone(r) == At(r, "server_error", "up") \/ Sent(r)

\* C7: the logging middleware's events of a request are a start event followed
\* by exactly one terminal event, complete if the next stage returned a
\* response and error if it raised; no terminal event precedes the start.
C7_StartThenOneTerminal ==
    \A r \in Requests :
        LET ev == MiddlewareEvents(r) IN
        /\ Len(ev) <= 2
        /\ Len(ev) >= 1 => ev[1].type = "request_start"
        /\ Len(ev) = 2 =>
              ev[2].type = (IF NextStageRaised(r) THEN "request_error"
                            ELSE "request_complete")
        /\ LoggingDone(r) => Len(ev) = 2

C7_Witness ==
    \E r, q \in Requests :
        /\ Sent(r) /\ NextStageRaised(r) /\ Len(MiddlewareEvents(r)) = 2
        /\ Sent(q) /\ ~NextStageRaised(q) /\ Len(MiddlewareEvents(q)) = 2

\* C8: the complete event is logged at ERROR for a response status in
\* 500..599, at WARNING for 400..499 and at INFO for every other status.
C8_CompleteSeverity ==
    \A r \in Requests :
        \A i \in 1..Len(events[r]) :
            LET e == events[r][i] IN
            e.type = "request_complete" =>
                /\ Sent(r) => e.status_code = flow[r].status
                /\ e.level = (CASE e.status_code \in 500..599 -> "ERROR"
                                [] e.status_code \in 400..499 -> "WARNING"
                                [] OTHER -> "INFO")

C8_Witness ==
    \E r, q \in Requests :
        /\ Sent(r) /\ Sent(q)
        /\ \E i \in 1..Len(events[r]) :
              /\ events[r][i].type = "request_complete"
              /\ events[r][i].status_code = 599 /\ events[r][i].level = "ERROR"
        /\ \E i \in 1..Len(events[q]) :
              /\ events[q][i].type = "request_complete"
              /\ events[q][i].status_code = 307 /\ events[q][i].level = "INFO"

\* C9: when the next stage raises, the logging middleware emits one error
\* event with the exception's message and the elapsed time and no complete
\* event, and raises the same exception again: it is the handler for
\* unhandled exceptions that answers, never the logging middleware.
C9_ErrorLoggedAndReraised ==
    \A r \in Requests :
        NextStageRaised(r) /\ LoggingDone(r) =>
            /\ Len(EventsOfType(r, "request_complete")) = 0
            /\ Len(EventsOfType(r, "request_error")) = 1
            /\ EventsOfType(r, "request_error")[1].error = outcome[r].exc.msg
            /\ EventsOfType(r, "request_error")[1].latency_ms \in 0..MaxElapsed
            /\ At(r, "server_error", "up") => flow[r] = outcome[r]
            /\ Sent(r) =>
                  /\ Len(EventsOfType(r, "unhandled_error")) = 1
                  /\ flow[r].kind = "response" /\ flow[r].status = 500
                  /\ flow[r].body.code = "E_SERVER_ERROR"

C9_Witness ==
    \E r \in Requests :
        /\ Sent(r) /\ NextStageRaised(r)
        /\ Len(EventsOfType(r, "request_error")) = 1
        /\ Len(EventsOfType(r, "unhandled_error")) = 1

\* C10: the headers recorded in a start event hold no Authorization, Cookie
\* or X-API-Key header, in whatever letter case the client sent the name.
C10_StartHeadersSanitized ==
    \A r \in Requests :
        \A i \in 1..Len(events[r]) :
            events[r][i].type = "request_start" =>
                \A k \in DOMAIN events[r][i].headers :
                    lower(k) \notin {"authorization", "cookie", "x-api-key"}

C10_Witness ==
    \E r \in Requests :
        /\ {"Authorization", "COOKIE", "x-api-key", "User-Agent"} \subseteq DOMAIN headers[r]
        /\ \E i \in 1..Len(events[r]) :
              /\ events[r][i].type = "request_start"
              /\ DOMAIN events[r][i].headers = {"User-Agent"}

\* =================================================== lifespan and log sinks

\* The settings the application is started with: which collaborators the
\* environment enables, whether their URLs are set, and whether (and from
\* which level) logger "app" has a DatabaseHandler.
MakeSettings(dbe, url, ce, curl, te, dle, dll) ==
    [db_enabled |-> dbe, db_url |-> url, cache_enabled |-> ce,
     cache_url |-> curl, tracing_enabled |-> te,
     db_logging_enabled |-> dle, db_logging_level |-> dll]

Configurations ==
    { DefaultSettings,
      MakeSettings(TRUE, "sqlite:///./data/app.db", FALSE, None, FALSE, TRUE, "INFO"),
      MakeSettings(TRUE, None, FALSE, None, FALSE, TRUE, "INFO"),
      MakeSettings(TRUE, "sqlite:///./data/app.db", TRUE, "redis://cache", TRUE, TRUE, "ERROR"),
      MakeSettings(FALSE, None, TRUE, "redis://cache", FALSE, FALSE, "INFO"),
      MakeSettings(TRUE, "sqlite:///./data/app.db", TRUE, None, FALSE, FALSE, "INFO") }

AppSpecInit == RequestsInit /\ (\E s \in Configurations : AppInit(s)) /\ RestInit

Range(seq) == {seq[i] : i \in 1..Len(seq)}

\* logging's numeric levels.
LevelNo(level) ==
    CASE level = "DEBUG" -> 10
      [] level = "INFO" -> 20
      [] level = "WARNING" -> 30
      [] level = "ERROR" -> 40
      [] OTHER -> 50

\* The handlers setup_logger adds to logger "app", in the order it adds them:
\* a record is handed to them in this order.
Handlers ==
    <<"console", "file">> \o
    (IF settings.db_logging_enabled THEN <<"database">> ELSE <<>>)

Before(hs, a, b) ==
    \E i, j \in 1..Len(hs) : i < j /\ hs[i] = a /\ hs[j] = b

\* What the storage does with the statements of one emit or of one activation:
\* it serves them, refuses the connection, or fails the statement.
StorageOutcomes == {"ok", "connect_fails", "execute_fails"}

\* The table of the handler's CREATE TABLE and INSERT: inside the triple-quoted
\* statement the quotes do not end the string, so the name is this text.
SinkTable == "+settings.logs_table_name+"

\* The table of the CREATE TABLE in startup.
StartupTable == "logs"

\* _log_error without line 179: it never notes the time of its output.
log_error_forgetful(t) ==
    IF t - last_error_time >= error_cooldown
    THEN [out |-> <<t>>, last_error_time |-> last_error_time]
    ELSE [out |-> <<>>, last_error_time |-> last_error_time]

\* DatabaseHandler._log_error called at time t: what it writes to stderr and
\* the last_error_time it leaves.
log_error(t) ==
    IF t - last_error_time >= error_cooldown
    THEN [out |-> <<t>>, last_error_time |-> t]
    ELSE [out |-> <<>>, last_error_time |-> last_error_time]

\* What an emit leaves: the two flags, whether it called _log_error, the rows
\* it inserted, the table creation it tried, and whether it raised.
EmitResult(active, created, err, rows, tried, raises) ==
    [is_active |-> active, table_created |-> created, err |-> err,
     rows |-> rows, tried |-> tried, raised |-> raises]

\* emit with no try around its body: a failure of the storage is raised to
\* the caller of the logging call.
emit_unguarded(o) ==
    IF ~is_active
    THEN IF engine_instance = None
         THEN EmitResult(FALSE, table_created, FALSE, 0, <<>>, FALSE)
         ELSE EmitResult(TRUE,
                         IF o = "ok" THEN TRUE ELSE table_created,
                         o = "execute_fails", 0,
                         <<[by |-> "emit", table |-> SinkTable, result |-> o]>>, o = "connect_fails")
    ELSE IF engine_instance = None
         THEN EmitResult(FALSE, table_created, TRUE, 0, <<>>, FALSE)
         ELSE IF o = "ok"
              THEN EmitResult(TRUE, table_created, FALSE, 1, <<>>, FALSE)
              ELSE EmitResult(TRUE, table_created, FALSE, 0, <<>>, TRUE)

\* emit that turns the handler active when it finds no storage handle.
emit_blind(o) ==
    IF ~is_active
    THEN IF engine_instance = None
         THEN EmitResult(TRUE, table_created, FALSE, 0, <<>>, FALSE)
         ELSE EmitResult(TRUE,
                         CASE o = "ok" -> TRUE
                           [] o = "execute_fails" -> table_created
                           [] OTHER -> FALSE,
                         o # "ok", 0,
                         <<[by |-> "emit", table |-> SinkTable, result |-> o]>>, FALSE)
    ELSE IF engine_instance = None
         THEN EmitResult(FALSE, table_created, TRUE, 0, <<>>, FALSE)
         ELSE IF o = "ok"
              THEN EmitResult(TRUE, table_created, FALSE, 1, <<>>, FALSE)
              ELSE EmitResult(TRUE, FALSE, TRUE, 0, <<>>, FALSE)

\* DatabaseHandler.emit for a record of logger "app" (its name and fields do
\* not hold "DatabaseHandler": the guard of lines 89-91 lets it pass), with the
\* storage answering o.
\*  - inactive, no handle: nothing (lines 95-100, 123);
\*  - inactive, handle: active from now on; the table-creation block runs, and
\*    the record is dropped (lines 100-123). A refused connection is caught by
\*    the outer except (166-170), a failed statement by the inner one (120);
\*  - active, no handle: inactive again, one diagnostic (129-134);
\*  - active, handle: one INSERT (137-164), or the outer except.
emit(o) ==
    IF ~is_active
    THEN IF engine_instance = None
         THEN EmitResult(FALSE, table_created, FALSE, 0, <<>>, FALSE)
         ELSE EmitResult(TRUE,
                         CASE o = "ok" -> TRUE
                           [] o = "execute_fails" -> table_created
                           [] OTHER -> FALSE,
                         o # "ok", 0,
                         <<[by |-> "emit", table |-> SinkTable, result |-> o]>>, FALSE)
    ELSE IF engine_instance = None
         THEN EmitResult(FALSE, table_created, TRUE, 0, <<>>, FALSE)
         ELSE IF o = "ok"
              THEN EmitResult(TRUE, table_created, FALSE, 1, <<>>, FALSE)
              ELSE EmitResult(TRUE, FALSE, TRUE, 0, <<>>, FALSE)

\* Does handler h get the record? Not when a handler before it raised.
Reaches(h, e) == ~(e.raised /\ Before(Handlers, "database", h))

\* One logging call on logger "app" (get_logger(...).info/warning/error): the
\* record goes to the console handler, the file handler and, when its level
\* reaches the handler's, to the DatabaseHandler.
LogPending ==
    /\ pending # <<>>
    /\ \E o \in StorageOutcomes :
          LET level == Head(pending)
              handled == /\ "database" \in Range(Handlers)
                         /\ LevelNo(level) >= LevelNo(settings.db_logging_level)
              e == IF handled THEN emit(o)
                   ELSE EmitResult(is_active, table_created, FALSE, 0, <<>>, FALSE)
              d == IF e.err THEN log_error(now)
                   ELSE [out |-> <<>>, last_error_time |-> last_error_time]
          IN  /\ log_calls' = log_calls + 1
              /\ console' = console + (IF Reaches("console", e) THEN 1 ELSE 0)
              /\ file' = file + (IF Reaches("file", e) THEN 1 ELSE 0)
              /\ is_active' = e.is_active
              /\ table_created' = e.table_created
              /\ db_writes' = db_writes + e.rows
              /\ schema_attempts' = schema_attempts \o e.tried
              /\ diagnostics' = diagnostics + (IF e.err THEN 1 ELSE 0)
              /\ stderr' = stderr \o d.out
              /\ last_error_time' = d.last_error_time
              /\ raised' = (raised \/ e.raised)
    /\ pending' = Tail(pending)
    /\ UNCHANGED <<settings, pc, db_ready, cache_ready, db_engine,
                   engine_instance, redis, tracer_provider, now, initialized,
                   init_result, released, probe_response, served>>

sinkVars == <<is_active, table_created, last_error_time, log_calls, console,
              file, db_writes, schema_attempts, stderr, raised, diagnostics>>

\* time.time() moves on.
Tick ==
    /\ pc # "stopped"
    /\ now < error_cooldown + MaxTime
    /\ now' = now + 1
    /\ UNCHANGED <<settings, pc, pending, db_ready, cache_ready, db_engine,
                   engine_instance, redis, tracer_provider, initialized,
                   init_result, released, probe_response, served>>
    /\ UNCHANGED sinkVars

\* ---------------------------------------------------------------- startup

\* startup up to its call of init_db: the record about the metrics.
StartupBegin ==
    /\ pc = "startup" /\ pending = <<>>
    /\ pending' = <<"INFO">>
    /\ pc' = "init_db"
    /\ UNCHANGED <<settings, db_ready, cache_ready, db_engine, engine_instance,
                   redis, tracer_provider, now, initialized, init_result,
                   released, probe_response, served>>
    /\ UNCHANGED sinkVars

\* init_db up to create_engine: it returns early when the database is
\* disabled, has no URL or SQLAlchemy cannot be imported, and its except
\* clause catches a failure to make the directory of the database.
InitDb ==
    /\ pc = "init_db" /\ pending = <<>>
    /\ initialized' = Append(initialized, "storage")
    /\ IF ~settings.db_enabled
       THEN /\ pending' = <<"INFO">>
            /\ db_ready' = FALSE
            /\ init_result' = [init_result EXCEPT !["storage"] = "disabled"]
            /\ pc' = "activate"
       ELSE IF settings.db_url = None
       THEN /\ pending' = <<"WARNING">>
            /\ db_ready' = FALSE
            /\ init_result' = [init_result EXCEPT !["storage"] = "failed"]
            /\ pc' = "activate"
       ELSE \E o \in {"import_fails", "mkdir_fails", "ok"} :
            /\ pending' = <<CASE o = "import_fails" -> "WARNING"
                              [] o = "mkdir_fails" -> "ERROR"
                              [] OTHER -> "INFO">>
            /\ db_ready' = (IF o = "ok" THEN db_ready ELSE FALSE)
            /\ init_result' = [init_result EXCEPT !["storage"] =
                                  IF o = "ok" THEN @ ELSE "failed"]
            /\ pc' = (IF o = "ok" THEN "init_db_connect" ELSE "activate")
    /\ UNCHANGED <<settings, cache_ready, db_engine, engine_instance, redis,
                   tracer_provider, now, released, probe_response, served>>
    /\ UNCHANGED sinkVars

\* init_db with no except clause: what create_engine or the connection
\* raises ends startup.
InitDbConnect_raises ==
    /\ pc = "init_db_connect" /\ pending = <<>>
    /\ \E o \in {"create_fails", "check_fails", "ok"} :
          /\ db_engine' = (IF o = "create_fails" THEN db_engine ELSE "engine")
          /\ engine_instance' = (IF o = "create_fails" THEN engine_instance
                                 ELSE "engine")
          /\ db_ready' = (IF o = "ok" THEN TRUE ELSE db_ready)
          /\ init_result' = [init_result EXCEPT !["storage"] =
                                IF o = "ok" THEN "ok" ELSE "failed"]
          /\ pending' = (IF o = "ok" THEN <<"INFO">> ELSE <<>>)
          /\ pc' = (IF o = "ok" THEN "activate" ELSE "aborted")
    /\ UNCHANGED <<settings, cache_ready, redis, tracer_provider, now,
                   initialized, released, probe_response, served>>
    /\ UNCHANGED sinkVars

\* init_db from create_engine on: the engine is stored in app.state and in the
\* module (set_db_engine) before the connection is tried.
InitDbConnect ==
    /\ pc = "init_db_connect" /\ pending = <<>>
    /\ \E o \in {"create_fails", "check_fails", "ok"} :
          /\ db_engine' = (IF o = "create_fails" THEN db_engine ELSE "engine")
          /\ engine_instance' = (IF o = "create_fails" THEN engine_instance
                                 ELSE "engine")
          /\ db_ready' = (o = "ok")
          /\ init_result' = [init_result EXCEPT !["storage"] =
                                IF o = "ok" THEN "ok" ELSE "failed"]
          /\ pending' = <<IF o = "ok" THEN "INFO" ELSE "ERROR">>
    /\ pc' = "activate"
    /\ UNCHANGED <<settings, cache_ready, redis, tracer_provider, now,
                   initialized, released, probe_response, served>>
    /\ UNCHANGED sinkVars

\* The activation creating the table whether or not the handler has.
ActivateDbLogging_always_creates ==
    /\ pc = "activate" /\ pending = <<>>
    /\ pc' = "init_cache"
    /\ IF ~settings.db_logging_enabled
       THEN UNCHANGED <<is_active, table_created, schema_attempts, pending>>
       ELSE /\ is_active' = TRUE
            /\ IF engine_instance # None
               THEN \E o \in StorageOutcomes :
                      /\ schema_attempts' = Append(schema_attempts,
                                               [by |-> "startup", table |-> StartupTable,
                                                result |-> o])
                      /\ table_created' = (o = "ok")
                      /\ pending' = (IF o = "ok" THEN <<>> ELSE <<"WARNING">>)
               ELSE UNCHANGED <<table_created, schema_attempts, pending>>
    /\ UNCHANGED <<settings, db_ready, cache_ready, db_engine, engine_instance,
                   redis, tracer_provider, now, initialized, init_result,
                   released, probe_response, served>>
    /\ UNCHANGED <<last_error_time, log_calls, console, file, db_writes,
                   stderr, raised, diagnostics>>

\* startup's activation of the database log handler: it sets the handler
\* active whether or not there is a storage handle, and creates the table
\* when there is one and the handler has not created it.
ActivateDbLogging ==
    /\ pc = "activate" /\ pending = <<>>
    /\ pc' = "init_cache"
    /\ IF ~settings.db_logging_enabled
       THEN UNCHANGED <<is_active, table_created, schema_attempts, pending>>
       ELSE /\ is_active' = TRUE
            /\ IF engine_instance # None /\ ~table_created
               THEN \E o \in StorageOutcomes :
                      /\ schema_attempts' = Append(schema_attempts,
                                               [by |-> "startup", table |-> StartupTable,
                                                result |-> o])
                      /\ table_created' = (o = "ok")
                      /\ pending' = (IF o = "ok" THEN <<>> ELSE <<"WARNING">>)
               ELSE UNCHANGED <<table_created, schema_attempts, pending>>
    /\ UNCHANGED <<settings, db_ready, cache_ready, db_engine, engine_instance,
                   redis, tracer_provider, now, initialized, init_result,
                   released, probe_response, served>>
    /\ UNCHANGED <<last_error_time, log_calls, console, file, db_writes,
                   stderr, raised, diagnostics>>

\* init_cache.
InitCache ==
    /\ pc = "init_cache" /\ pending = <<>>
    /\ initialized' = Append(initialized, "cache")
    /\ pc' = "setup_tracing"
    /\ IF ~settings.cache_enabled
       THEN /\ pending' = <<"INFO">>
            /\ cache_ready' = FALSE
            /\ init_result' = [init_result EXCEPT !["cache"] = "disabled"]
            /\ UNCHANGED redis
       ELSE IF settings.cache_url = None
       THEN /\ pending' = <<"WARNING">>
            /\ cache_ready' = FALSE
            /\ init_result' = [init_result EXCEPT !["cache"] = "failed"]
            /\ UNCHANGED redis
       ELSE \E o \in {"import_fails", "ping_fails", "no_pong", "pong"} :
            /\ pending' = <<CASE o = "import_fails" -> "WARNING"
                              [] o = "ping_fails" -> "ERROR"
                              [] OTHER -> "INFO">>
            /\ redis' = (IF o \in {"no_pong", "pong"} THEN "client" ELSE redis)
            /\ cache_ready' = (o = "pong")
            /\ init_result' = [init_result EXCEPT !["cache"] =
                                  IF o = "pong" THEN "ok" ELSE "failed"]
    /\ UNCHANGED <<settings, db_ready, db_engine, engine_instance,
                   tracer_provider, now, released, probe_response, served>>
    /\ UNCHANGED sinkVars

\* setup_tracing.
SetupTracing ==
    /\ pc = "setup_tracing" /\ pending = <<>>
    /\ initialized' = Append(initialized, "tracing")
    /\ pc' = "banner"
    /\ IF ~settings.tracing_enabled
       THEN /\ pending' = <<"INFO">>
            /\ init_result' = [init_result EXCEPT !["tracing"] = "disabled"]
            /\ UNCHANGED tracer_provider
       ELSE \E o \in {"fails", "ok", "ok_without_instrumentation"} :
            /\ pending' = (CASE o = "fails" -> <<"ERROR">>
                             [] o = "ok" -> <<"INFO">>
                             [] OTHER -> <<"WARNING", "INFO">>)
            /\ tracer_provider' = (IF o = "fails" THEN tracer_provider
                                   ELSE "provider")
            /\ init_result' = [init_result EXCEPT !["tracing"] =
                                  IF o = "fails" THEN "failed" ELSE "ok"]
    /\ UNCHANGED <<settings, db_ready, cache_ready, db_engine, engine_instance,
                   redis, now, released, probe_response, served>>
    /\ UNCHANGED sinkVars

\* The last five records of startup, "Application started." the last; the
\* lifespan then yields and the application serves requests.
StartupBanner ==
    /\ pc = "banner" /\ pending = <<>>
    /\ pending' = <<"INFO", "INFO", "INFO", "INFO", "INFO">>
    /\ pc' = "serving"
    /\ UNCHANGED <<settings, db_ready, cache_ready, db_engine, engine_instance,
                   redis, tracer_provider, now, initialized, init_result,
                   released, probe_response, served>>
    /\ UNCHANGED sinkVars

\* ---------------------------------------------------------------- serving

\* A logging call made for a request: the records of the logging middleware
\* and of the exception handlers.
RequestLog ==
    /\ pc = "serving" /\ pending = <<>>
    /\ served < MaxServed
    /\ served' = served + 1
    /\ \E level \in {"INFO", "WARNING", "ERROR"} : pending' = <<level>>
    /\ UNCHANGED <<settings, pc, db_ready, cache_ready, db_engine,
                   engine_instance, redis, tracer_provider, now, initialized,
                   init_result, released, probe_response>>
    /\ UNCHANGED sinkVars

\* The body of the liveness answer.
HealthzBody == [kind |-> "health", status |-> "ok"]

\* healthz answering "ok" only when the readiness expression holds.
Healthz_when_ready ==
    /\ pc = "serving" /\ pending = <<>>
    /\ served < MaxServed
    /\ served' = served + 1
    /\ pending' = <<"INFO">>
    /\ probe_response' =
          [probe |-> "healthz", kind |-> "response",
           status |-> (IF db_ready \/ ~settings.db_enabled THEN 200 ELSE 503),
           body |-> [kind |-> "health",
                     status |-> IF db_ready \/ ~settings.db_enabled
                                THEN "ok" ELSE "unavailable"]]
    /\ UNCHANGED <<settings, pc, db_ready, cache_ready, db_engine,
                   engine_instance, redis, tracer_provider, now, initialized,
                   init_result, released>>
    /\ UNCHANGED sinkVars

\* healthz: it logs one record and answers.
Healthz ==
    /\ pc = "serving" /\ pending = <<>>
    /\ served < MaxServed
    /\ served' = served + 1
    /\ pending' = <<"INFO">>
    /\ probe_response' = [probe |-> "healthz", kind |-> "response", status |-> 200,
                    body |-> HealthzBody]
    /\ UNCHANGED <<settings, pc, db_ready, cache_ready, db_engine,
                   engine_instance, redis, tracer_provider, now, initialized,
                   init_result, released>>
    /\ UNCHANGED sinkVars

\* ready = db_ready and cache_ready if any([settings and (db_enabled or
\* cache_enabled)]) else True
ReadyExpr ==
    IF settings.db_enabled \/ settings.cache_enabled
    THEN db_ready /\ cache_ready
    ELSE TRUE

\* What the framework passes for the parameter "request" of readyz. The
\* parameter has no annotation and is no part of the path, so the framework
\* reads it from the query string: it is missing, or it is a string.
ReadyzArguments == { [kind |-> "missing"], [kind |-> "str", value |-> "1"] }

\* The answer to GET /readyz with the argument the framework got for
\* "request": 422 from the validation handler when it is missing; 500 from the
\* handler for unhandled exceptions when request.app fails on a string; the
\* readiness body when it is a Request.
ReadyzAnswer(request) ==
    CASE request.kind = "missing" ->
            ValidationResponse([type |-> "RequestValidationError",
                                errors |-> "field required"], None)
      [] request.kind = "str" ->
            UnhandledResponse([type |-> "AttributeError",
                               msg |-> "'str' object has no attribute 'app'"],
                              None)
      [] OTHER ->
            [kind |-> "response", status |-> 200, xrid |-> None,
             body |-> [kind |-> "ready", ready |-> ReadyExpr,
                       db_ready |-> db_ready, cache_ready |-> cache_ready]]

\* readyz, called by the framework for GET /readyz.
Readyz ==
    /\ pc = "serving" /\ pending = <<>>
    /\ served < MaxServed
    /\ served' = served + 1
    /\ \E request \in ReadyzArguments :
          /\ probe_response' = [probe |-> "readyz"] @@ ReadyzAnswer(request)
          /\ pending' = (IF request.kind \in {"missing", "str"} THEN <<>>
                         ELSE <<"INFO">>)
    /\ UNCHANGED <<settings, pc, db_ready, cache_ready, db_engine,
                   engine_instance, redis, tracer_provider, now, initialized,
                   init_result, released>>
    /\ UNCHANGED sinkVars

\* What get_logs does for a query the framework has accepted: with no storage
\* handle it logs an error and returns a dict with status "error"; with one it
\* runs its two queries and returns the rows, and its except clause turns
\* whatever they raise into a dict with status "error" and the text of the
\* exception. A returned dict is sent with status 200.
get_logs(o) ==
    IF engine_instance = None
    THEN [level |-> "ERROR", failed |-> TRUE,
          body |-> [kind |-> "logs", status |-> "error", message |-> "database unavailable"]]
    ELSE IF o = "ok"
    THEN [level |-> "INFO", failed |-> FALSE,
          body |-> [kind |-> "logs", status |-> "success", message |-> None]]
    ELSE [level |-> "ERROR", failed |-> TRUE,
          body |-> [kind |-> "logs", status |-> "error", message |-> o]]

\* GET /logs: a query outside the limits of page and page_size is answered by
\* the validation handler; otherwise get_logs runs.
GetLogs ==
    /\ pc = "serving" /\ pending = <<>>
    /\ served < MaxServed
    /\ served' = served + 1
    /\ \/ /\ probe_response' =
                [probe |-> "logs", failed |-> TRUE] @@
                ValidationResponse([type |-> "RequestValidationError",
                                    errors |-> "page_size"], None)
          /\ pending' = <<>>
       \/ \E o \in StorageOutcomes :
             /\ probe_response' = [probe |-> "logs", failed |-> get_logs(o).failed,
                                   kind |-> "response", status |-> 200, xrid |-> None,
                                   body |-> get_logs(o).body]
             /\ pending' = <<get_logs(o).level>>
    /\ UNCHANGED <<settings, pc, db_ready, cache_ready, db_engine,
                   engine_instance, redis, tracer_provider, now, initialized,
                   init_result, released>>
    /\ UNCHANGED sinkVars

\* --------------------------------------------------------------- shutdown

\* The server stops: the lifespan goes on after its yield.
ShutdownBegin ==
    /\ pc = "serving" /\ pending = <<>>
    /\ pc' = "close_db"
    /\ UNCHANGED <<settings, pending, db_ready, cache_ready, db_engine,
                   engine_instance, redis, tracer_provider, now, initialized,
                   init_result, released, probe_response, served>>
    /\ UNCHANGED sinkVars

\* A release step of shutdown: when the collaborator has a handle it is
\* released inside try/except, and the outcome is logged.
Release(name, handle, here, next) ==
    /\ pc = here /\ pending = <<>>
    /\ pc' = next
    /\ IF handle # None
       THEN \E ok \in BOOLEAN :
              /\ released' = Append(released, [name |-> name, ok |-> ok])
              /\ pending' = <<IF ok THEN "INFO" ELSE "WARNING">>
       ELSE UNCHANGED <<released, pending>>
    /\ UNCHANGED <<settings, db_ready, cache_ready, db_engine, engine_instance,
                   redis, tracer_provider, now, initialized, init_result,
                   probe_response, served>>
    /\ UNCHANGED sinkVars

\* close_db raising what engine.dispose() raises: shutdown stops there.
CloseDb_raises ==
    /\ pc = "close_db" /\ pending = <<>>
    /\ IF db_engine # None
       THEN \E ok \in BOOLEAN :
              /\ released' = Append(released, [name |-> "storage", ok |-> ok])
              /\ pending' = (IF ok THEN <<"INFO">> ELSE <<>>)
              /\ pc' = (IF ok THEN "close_cache" ELSE "aborted")
       ELSE /\ pc' = "close_cache"
            /\ UNCHANGED <<released, pending>>
    /\ UNCHANGED <<settings, db_ready, cache_ready, db_engine, engine_instance,
                   redis, tracer_provider, now, initialized, init_result,
                   probe_response, served>>
    /\ UNCHANGED sinkVars

\* close_db: the first release of shutdown.
CloseDb == Release("storage", db_engine, "close_db", "close_cache")

\* close_cache: the second.
CloseCache == Release("cache", redis, "close_cache", "shutdown_tracing")

\* shutdown_tracing: the third.
ShutdownTracing == Release("tracing", tracer_provider, "shutdown_tracing", "farewell")

\* The last statement of shutdown: the record "Application shutdown.".
Farewell ==
    /\ pc = "farewell" /\ pending = <<>>
    /\ pending' = <<"INFO">>
    /\ pc' = "stopped"
    /\ UNCHANGED <<settings, db_ready, cache_ready, db_engine, engine_instance,
                   redis, tracer_provider, now, initialized, init_result,
                   released, probe_response, served>>
    /\ UNCHANGED sinkVars

\* A step of the application; no request of the pipeline model moves.
AppNext ==
    \/ LogPending /\ UNCHANGED <<requestVars, restVars>>
    \/ StartupBegin /\ UNCHANGED <<requestVars, restVars>>
    \/ InitDb /\ UNCHANGED <<requestVars, restVars>>
    \/ InitDbConnect /\ UNCHANGED <<requestVars, restVars>>
    \/ ActivateDbLogging /\ UNCHANGED <<requestVars, restVars>>
    \/ InitCache /\ UNCHANGED <<requestVars, restVars>>
    \/ SetupTracing /\ UNCHANGED <<requestVars, restVars>>
    \/ StartupBanner /\ UNCHANGED <<requestVars, restVars>>
    \/ RequestLog /\ UNCHANGED <<requestVars, restVars>>
    \/ Healthz /\ UNCHANGED <<requestVars, restVars>>
    \/ Readyz /\ UNCHANGED <<requestVars, restVars>>
    \/ ShutdownBegin /\ UNCHANGED <<requestVars, restVars>>
    \/ CloseDb /\ UNCHANGED <<requestVars, restVars>>
    \/ CloseCache /\ UNCHANGED <<requestVars, restVars>>
    \/ ShutdownTracing /\ UNCHANGED <<requestVars, restVars>>
    \/ Farewell /\ UNCHANGED <<requestVars, restVars>>

\* The application from its construction to its stop, under each of the
\* configurations, at one reading of the clock.
AppSpec == AppSpecInit /\ [][AppNext]_vars

\* The configuration with a database and a cache whose DatabaseHandler takes
\* the records from ERROR up.
ClockSettings ==
    MakeSettings(TRUE, "sqlite:///./data/app.db", TRUE, "redis://cache", FALSE,
                 TRUE, "ERROR")

ClockInit == RequestsInit /\ AppInit(ClockSettings) /\ RestInit

ClockNext ==
    \/ AppNext
    \/ Tick /\ UNCHANGED <<requestVars, restVars>>

\* The same application under a running clock.
ClockSpec == ClockInit /\ [][ClockNext]_vars

\* The application with fair scheduling: the event loop runs the lifespan's
\* coroutine and the handlers to their end; nothing is cancelled.
AppFairSpec == AppSpec /\ WF_vars(AppNext)

\* The configurations the log monitor is observed under: no database, and a
\* database with its log handler.
LogsConfigurations ==
    { DefaultSettings,
      MakeSettings(TRUE, "sqlite:///./data/app.db", FALSE, None, FALSE, TRUE, "ERROR") }

LogsInit == RequestsInit /\ (\E s \in LogsConfigurations : AppInit(s)) /\ RestInit

LogsNext ==
    \/ AppNext
    \/ GetLogs /\ UNCHANGED <<requestVars, restVars>>

\* The application with the router of app.api.logs included.
LogsSpec == LogsInit /\ [][LogsNext]_vars

\* ------------------------------------------------- claims on the log sinks

\* The step is a logging call.
LogStep == log_calls' = log_calls + 1

\* The record of this logging call is handed to the DatabaseHandler.
EmitStep ==
    /\ LogStep
    /\ settings.db_logging_enabled
    /\ LevelNo(Head(pending)) >= LevelNo(settings.db_logging_level)

AttemptsBy(who) == {i \in 1..Len(schema_attempts) : schema_attempts[i].by = who}

TablesCreated == {i \in 1..Len(schema_attempts) : schema_attempts[i].result = "ok"}

\* C11: while get_db_engine() returns nothing, an emit writes nothing to the
\* database and raises nothing, and it leaves the handler inactive; on a
\* handler that is inactive it does nothing at all.
C11_NoHandleNoWrites ==
    [][ EmitStep /\ engine_instance = None =>
            /\ db_writes = 0 /\ db_writes' = 0
            /\ schema_attempts' = <<>>
            /\ ~raised'
            /\ ~is_active'
            /\ ~is_active => UNCHANGED <<table_created, last_error_time,
                                         stderr, diagnostics>> ]_vars

C11_Witness ==
    /\ settings.db_logging_enabled /\ settings.db_logging_level = "INFO"
    /\ engine_instance = None
    /\ pc = "activate" /\ pending = <<>>
    /\ log_calls >= 2
    /\ ~is_active /\ db_writes = 0 /\ ~raised

C13_SinkFailuresContained ==
    /\ ~raised
    /\ console = log_calls
    /\ file = log_calls

C13_Witness ==
    /\ \E i \in 1..Len(schema_attempts) : schema_attempts[i].result = "execute_fails"
    /\ diagnostics >= 2
    /\ db_writes >= 1
    /\ console = log_calls /\ file = log_calls /\ ~raised

\* C14: two consecutive outputs of _log_error are at least error_cooldown
\* seconds apart.
C14_DiagnosticsThrottled ==
    \A i \in 1..(Len(stderr) - 1) : stderr[i + 1] - stderr[i] >= error_cooldown

C14_Witness ==
    /\ Len(stderr) = 2
    /\ diagnostics >= 4

\* ------------------------------------------------ claims on the lifespan

InitOrder == <<"storage", "cache", "tracing">>

StartupDone == pc \notin {"startup", "init_db", "init_db_connect", "activate",
                          "init_cache", "setup_tracing", "banner", "aborted"}

\* C15: startup initializes storage, cache and tracing in this order; an
\* initialization that fails leaves its own collaborator not ready and no
\* other, startup never ends before its last statement, and under fair
\* scheduling it reaches it.
C15_StartupOrderAndIsolation ==
    /\ [](/\ pc # "aborted"
          /\ initialized = SubSeq(InitOrder, 1, Len(initialized))
          /\ StartupDone =>
                /\ initialized = InitOrder
                /\ db_ready = (init_result["storage"] = "ok")
                /\ cache_ready = (init_result["cache"] = "ok")
                /\ (tracer_provider # None) = (init_result["tracing"] = "ok"))
    /\ <>(pc = "serving" /\ pending = <<>>)

C15_Witness ==
    /\ pc = "serving" /\ pending = <<>>
    /\ init_result["storage"] = "failed"
    /\ init_result["cache"] = "ok" /\ cache_ready
    /\ init_result["tracing"] = "ok"

\* The place of a collaborator in the order of initialization.
InitPlace(name) == CHOOSE i \in 1..Len(InitOrder) : InitOrder[i] = name

\* C16: shutdown releases the collaborators in the reverse of the order of
\* their initialization: tracing, then cache, then storage.
C16_ReleaseInReverse ==
    \A i, j \in 1..Len(released) :
        i < j => InitPlace(released[i].name) > InitPlace(released[j].name)

\* The collaborators that have something to release.
Held ==
    (IF db_engine # None THEN {"storage"} ELSE {})
    \cup (IF redis # None THEN {"cache"} ELSE {})
    \cup (IF tracer_provider # None THEN {"tracing"} ELSE {})

\* C17: shutdown never ends before its last statement, whatever release
\* fails; once it has logged "Application shutdown." every collaborator that
\* held something has been released once; and under fair scheduling a
\* shutdown that has begun reaches that statement.
C17_ShutdownCompletes ==
    /\ [](/\ pc # "aborted"
          /\ pc = "stopped" =>
                /\ {released[i].name : i \in 1..Len(released)} = Held
                /\ Len(released) = Cardinality(Held))
    /\ (pc = "close_db" ~> (pc = "stopped" /\ pending = <<>>))

C17_Witness ==
    /\ pc = "stopped" /\ pending = <<>>
    /\ Len(released) = 3
    /\ \A i \in 1..3 : ~released[i].ok

\* Every collaborator the settings enable has its ready flag set.
EnabledAreReady ==
    /\ settings.db_enabled => db_ready
    /\ settings.cache_enabled => cache_ready

ReadyzAnswered == probe_response.probe = "readyz"

\* C18: the answer to the readiness query has ready = true only if every
\* enabled collaborator is ready, and with the database enabled and no
\* connection string it has ready = false.
C18_ReadyOnlyIfEnabledReady ==
    ReadyzAnswered =>
        /\ (probe_response.body.kind = "ready" /\ probe_response.body.ready)
              => EnabledAreReady
        /\ (settings.db_enabled /\ settings.db_url = None) =>
              /\ probe_response.body.kind = "ready"
              /\ ~probe_response.body.ready

\* C19: when every enabled collaborator is ready, the readiness query finds
\* ready = true, whatever the flag of a collaborator that is not enabled.
C19_ReadyWhenEnabledReady ==
    (StartupDone /\ EnabledAreReady) => ReadyExpr

\* What the application holds apart from its log sinks.
applicationState ==
    <<settings, pc, db_ready, cache_ready, db_engine, engine_instance, redis,
      tracer_provider, initialized, init_result, released>>

HealthzStep == probe_response'.probe = "healthz" /\ served' = served + 1

\* C20: the liveness query answers 200 with status "ok" whatever the settings
\* and the ready flags are, and neither it nor its log record changes what the
\* application holds.
C20_LivenessAlwaysOk ==
    [][ /\ HealthzStep =>
              /\ probe_response'.status = 200
              /\ probe_response'.body = [kind |-> "health", status |-> "ok"]
        /\ (HealthzStep \/ LogStep) => UNCHANGED applicationState ]_vars

C20_Witness ==
    /\ probe_response.probe = "healthz"
    /\ settings.db_enabled /\ ~db_ready
    /\ settings.cache_enabled /\ ~cache_ready
    /\ probe_response.body.status = "ok"

\* ---- C24: every failure of an endpoint reaches the client as an error
\* envelope (code, message, detail, request_id) with a status that is not 2xx,
\* made by the error translation layer; no endpoint turns an exception or an
\* unavailable dependency into an answer of another shape.
C24_FailuresAreEnvelopes ==
    (probe_response.probe \in {"readyz", "logs"} /\ probe_response.kind = "response"
       /\ (probe_response.probe = "logs" => probe_response.failed))
    => /\ probe_response.body.kind = "error"
       /\ probe_response.body.code \in ErrorCodes
       /\ probe_response.status \notin 200..299

\* ---- C26: after a write of a record to the database has failed the
\* table-created flag is reset, and an emit that then finds the flag reset and
\* the database available and working attempts the creation of the log table
\* again.
C26_CreationRetriedAfterFailure ==
    [][ /\ (EmitStep /\ is_active /\ engine_instance # None
                     /\ diagnostics' = diagnostics + 1)
           => ~table_created'
        /\ (EmitStep /\ is_active /\ ~table_created /\ engine_instance # None
                     /\ diagnostics' = diagnostics)
           => Len(schema_attempts') > Len(schema_attempts) ]_vars

\* ---- C28: the DatabaseHandler drops a record only when there is no storage
\* handle: a record handed to it while get_db_engine() returns the engine and
\* no database operation fails is inserted exactly once, the record whose emit
\* activates the handler included.
C28_DropsOnlyWithoutHandle ==
    [][ (EmitStep /\ engine_instance # None /\ diagnostics' = diagnostics)
        => db_writes' = db_writes + 1 ]_vars

\* ---- C29: the storage handle is visible to the log sink, and the sink is
\* active, only while the storage ready flag is true; while storage is marked
\* not ready the sink attempts no database operation.
C29_SinkOnlyWhenStorageReady ==
    /\ engine_instance # None => db_ready
    /\ is_active => db_ready

\* ========================================================= demo item store

\* The requests the item store serves in one observation.
MaxOps == 4

\* The largest id a client names.
MaxId == 2

ItemIds == 1..MaxId

ItemNames == {"a", "b"}

\* Item: id and name (the optional description plays no part).
Items == [id : ItemIds, name : ItemNames]

\* The request ids the middleware has put in request.state.
ItemRequestIds == {"uuid-1", "client-7"}

\* The index (from 1) of the first item of the list with this id, 0 when
\* there is none: the loops "for item in items: if item.id == item_id".
IndexOf(list, id) ==
    IF \E i \in 1..Len(list) : list[i].id = id
    THEN CHOOSE i \in 1..Len(list) :
            /\ list[i].id = id
            /\ \A j \in 1..(i - 1) : list[j].id # id
    ELSE 0

\* list.pop(index), the list that is left.
Pop(list, i) == [k \in 1..(Len(list) - 1) |-> IF k < i THEN list[k] ELSE list[k + 1]]

NotFound == HttpException(404, [kind |-> "dict", code |-> "E_NOT_FOUND",
                                message |-> "Item not found"])

AlreadyExists == HttpException(400, [kind |-> "dict", code |-> "E_BAD_REQUEST",
                                     message |-> "Item with this ID already exists"])

\* What an endpoint of the store leaves: the list, and what it returned
\* (SuccessResponse(data).model_dump()) or raised.
Returned(list, data) ==
    [items |-> list,
     result |-> [kind |-> "return", code |-> "OK", message |-> "success", data |-> data]]

Raised(list, exc) == [items |-> list, result |-> [kind |-> "raise", exc |-> exc]]

\* create_item that appends without looking for the id.
create_item_unchecked(item) == Returned(Append(items, item), item)

\* create_item
create_item(item) ==
    IF IndexOf(items, item.id) # 0
    THEN Raised(items, AlreadyExists)
    ELSE Returned(Append(items, item), item)

\* read_item
read_item(item_id) ==
    IF IndexOf(items, item_id) # 0
    THEN Returned(items, items[IndexOf(items, item_id)])
    ELSE Raised(items, NotFound)

\* update_item: the item found by the id of the path is replaced by the item
\* of the body, whatever id the body has.
update_item(item_id, updated_item) ==
    IF IndexOf(items, item_id) # 0
    THEN Returned([items EXCEPT ![IndexOf(items, item_id)] = updated_item], updated_item)
    ELSE Raised(items, NotFound)

\* delete_item that answers an unknown id as a deletion of nothing.
delete_item_lenient(item_id) ==
    IF IndexOf(items, item_id) # 0
    THEN Returned(Pop(items, IndexOf(items, item_id)), items[IndexOf(items, item_id)])
    ELSE Returned(items, None)

\* delete_item
delete_item(item_id) ==
    IF IndexOf(items, item_id) # 0
    THEN Returned(Pop(items, IndexOf(items, item_id)), items[IndexOf(items, item_id)])
    ELSE Raised(items, NotFound)

\* What the client gets for what the endpoint returned or raised. The routes
\* declare response_model=Item and return the success envelope, a dict with
\* neither id nor name: the framework's validation of the return value raises,
\* and the handler for Exception answers. An HTTPException goes to its handler.
ItemAnswer(result, request_id) ==
    IF result.kind = "raise"
    THEN HttpErrorResponse(result.exc, request_id)
    ELSE UnhandledResponse([type |-> "ResponseValidationError",
                            msg |-> "response: id, name: Field required"],
                           request_id)

\* A request to the store has been served: the list it leaves, and the request
\* and its answer for the record.
Serve(op, arg, e, request_id) ==
    /\ item_ops < MaxOps
    /\ item_ops' = item_ops + 1
    /\ items' = e.items
    /\ item_response' = [op |-> op, arg |-> arg, returned |-> (e.result.kind = "return"),
                         response |-> ItemAnswer(e.result, request_id)]

\* POST /items/
CreateItem ==
    \E item \in Items, rid \in ItemRequestIds :
        Serve("create", item.id, create_item(item), rid)

\* GET /items/{item_id}
ReadItem ==
    \E item_id \in ItemIds, rid \in ItemRequestIds :
        Serve("read", item_id, read_item(item_id), rid)

\* PUT /items/{item_id}
UpdateItem ==
    \E item_id \in ItemIds, updated_item \in Items, rid \in ItemRequestIds :
        Serve("update", item_id, update_item(item_id, updated_item), rid)

\* DELETE /items/{item_id}
DeleteItem ==
    \E item_id \in ItemIds, rid \in ItemRequestIds :
        Serve("delete", item_id, delete_item(item_id), rid)

\* A body or a path the framework cannot parse into the endpoint's arguments
\* (an id that is no integer, a missing name): the endpoint is not called.
RejectItemRequest ==
    \E op \in {"create", "read", "update", "delete"}, rid \in ItemRequestIds :
        /\ item_ops < MaxOps
        /\ item_ops' = item_ops + 1
        /\ items' = items
        /\ item_response' =
              [op |-> op, arg |-> 0, returned |-> FALSE,
               response |-> ValidationResponse(
                               [type |-> "RequestValidationError",
                                errors |-> "field required"], rid)]

ItemNext ==
    \/ CreateItem /\ UNCHANGED <<requestVars, appVars, pageVars, threadVars>>
    \/ ReadItem /\ UNCHANGED <<requestVars, appVars, pageVars, threadVars>>
    \/ UpdateItem /\ UNCHANGED <<requestVars, appVars, pageVars, threadVars>>
    \/ DeleteItem /\ UNCHANGED <<requestVars, appVars, pageVars, threadVars>>
    \/ RejectItemRequest /\ UNCHANGED <<requestVars, appVars, pageVars, threadVars>>

\* The item store from its import on, serving requests one after the other
\* (the endpoints have no await: no two of them interleave).
ItemSpec == Init /\ [][ItemNext]_vars

\* A request to the store is served in this step.
ItemStep == item_ops' = item_ops + 1

\* The ids of the stored items.
HasId(list, id) == \E i \in 1..Len(list) : list[i].id = id

\* ---- C21: creating an item whose id a stored item already has is answered
\* with status 400 and the code of a bad request (E_BAD_REQUEST, the enum's
\* value), and the store is left as it was.
C21_DuplicateCreateRejected ==
    [][ (ItemStep /\ item_response'.op = "create" /\ HasId(items, item_response'.arg))
        => /\ item_response'.response.status = 400
           /\ item_response'.response.body.kind = "error"
           /\ item_response'.response.body.code = "E_BAD_REQUEST"
           /\ items' = items ]_vars

\* A duplicate create has been answered while the store holds an item.
C21_Witness ==
    /\ item_response.op = "create"
    /\ item_response.response.status = 400
    /\ Len(items) = 2
    /\ HasId(items, item_response.arg)


\* ---- C22: reading, updating or deleting an item by an id no stored item has
\* is answered with status 404 and the code of a missing resource
\* (E_NOT_FOUND), and the store is left as it was.
C22_UnknownIdNotFound ==
    [][ (/\ ItemStep
         /\ item_response'.op \in {"read", "update", "delete"}
         /\ item_response'.arg \in ItemIds
         /\ ~HasId(items, item_response'.arg))
        => /\ item_response'.response.status = 404
           /\ item_response'.response.body.kind = "error"
           /\ item_response'.response.body.code = "E_NOT_FOUND"
           /\ items' = items ]_vars

\* A delete of an unknown id has been answered while the store holds another
\* item.
C22_Witness ==
    /\ item_response.op = "delete"
    /\ item_response.arg \in ItemIds
    /\ item_response.response.status = 404
    /\ items # <<>>
    /\ ~HasId(items, item_response.arg)

\* ---- C27: after any sequence of creates, updates and deletes from the empty
\* store no two stored items have the same id.
C27_IdsUnique ==
    \A i, j \in 1..Len(items) : items[i].id = items[j].id => i = j


\* =============================================================== pagination

\* The largest page number and page size a client asks for, besides the
\* limits of PageQuery, and the longest list paged, besides the demo list.
MaxPage == 4

MaxPageSize == 4

MaxTotal == 12

\* PageQuery: page >= 1, 1 <= page_size <= 100.
PageSizeLimit == 100

\* The demo list of items_paged: ids 1..200.
DemoTotal == 200

\* The query parameters clients send, the invalid ones included.
PageQueries ==
    [page : 0..MaxPage,
     page_size : (0..MaxPageSize) \cup {PageSizeLimit - 1, PageSizeLimit, PageSizeLimit + 1}]

\* The lengths of the lists paged.
Totals == (0..MaxTotal) \cup {DemoTotal - 1, DemoTotal, DemoTotal + 1}

\* A paged request arrives: its query parameters and the list it pages.
PageInit ==
    /\ paging \in PageQueries
    /\ total \in Totals
    /\ page_pc = "query"
    /\ page_meta = [kind |-> "none"]
    /\ page_slice = <<>>
    /\ page_response = [kind |-> "none"]

\* The constraints of PageQuery's fields.
ValidPageQuery(q) ==
    /\ q.page >= 1
    /\ q.page_size >= 1 /\ q.page_size <= PageSizeLimit

\* PageQuery.offset
offset(q) == (q.page - 1) * q.page_size

\* PageQuery.limit
limit(q) == q.page_size

\* to_meta that counts a page ending at the last element as having a next.
to_meta_inclusive(q, n) ==
    [total |-> n, page |-> q.page, page_size |-> q.page_size,
     has_next |-> (q.page * q.page_size <= n)]

\* PageQuery.to_meta(total)
to_meta(q, n) ==
    [total |-> n, page |-> q.page, page_size |-> q.page_size,
     has_next |-> (q.page * q.page_size < n)]

\* Python's list[lo:hi] for 0 <= lo <= hi: the elements at the positions
\* lo .. hi-1 (from 0) that the list has.
Slice(list, lo, hi) ==
    LET last == IF hi < Len(list) THEN hi ELSE Len(list) IN
    IF lo >= last THEN <<>> ELSE [k \in 1..(last - lo) |-> list[lo + k]]

\* A list of n elements.
ListOf(n) == [i \in 1..n |-> i]

\* The framework builds the PageQuery from the query string, or answers 422.
ParsePageQuery ==
    /\ page_pc = "query"
    /\ IF ValidPageQuery(paging)
       THEN /\ page_pc' = "parsed"
            /\ page_response' = page_response
       ELSE /\ page_pc' = "rejected"
            /\ page_response' =
                  ValidationResponse([type |-> "RequestValidationError",
                                      errors |-> "page, page_size"], None)
    /\ UNCHANGED <<paging, total, page_meta, page_slice>>

\* paging.to_meta(total) for the list that is paged.
ToMeta ==
    /\ page_pc = "parsed"
    /\ page_meta' = to_meta(paging, total)
    /\ page_pc' = "meta"
    /\ UNCHANGED <<paging, total, page_slice, page_response>>

\* The client asks for the page after this one: the slice items_paged takes
\* for it, items[paging.offset : paging.offset + paging.limit].
FollowingPage ==
    /\ page_pc = "meta"
    /\ LET following == [paging EXCEPT !.page = @ + 1] IN
          page_slice' = Slice(ListOf(total), offset(following),
                              offset(following) + limit(following))
    /\ page_pc' = "done"
    /\ UNCHANGED <<paging, total, page_meta, page_response>>

\* items_paged: the slice of the demo list and the metadata for it.
ItemsPaged ==
    /\ page_pc = "parsed"
    /\ page_response' =
          [kind |-> "response", status |-> 200,
           body |-> [code |-> "OK", message |-> "success",
                     data |-> Slice(ListOf(DemoTotal), offset(paging),
                                    offset(paging) + limit(paging)),
                     meta |-> to_meta(paging, DemoTotal)]]
    /\ page_pc' = "answered"
    /\ UNCHANGED <<paging, total, page_meta, page_slice>>

PageNext ==
    \/ ParsePageQuery /\ UNCHANGED <<requestVars, appVars, storeVars, threadVars>>
    \/ ToMeta /\ UNCHANGED <<requestVars, appVars, storeVars, threadVars>>
    \/ FollowingPage /\ UNCHANGED <<requestVars, appVars, storeVars, threadVars>>
    \/ ItemsPaged /\ UNCHANGED <<requestVars, appVars, storeVars, threadVars>>

\* The application with a paged request arrived.
PageSpecInit ==
    RequestsInit /\ AppInit(DefaultSettings) /\ StoreInit /\ ThreadIdle /\ PageInit

\* Paged requests, one for every query and list length.
PageSpec == PageSpecInit /\ [][PageNext]_vars

\* ---- C30: for page >= 1, page_size in 1..100 and total >= 0, has_next of
\* to_meta is true exactly when the slice of the following page (offset
\* page * page_size, length page_size) of a list of total elements is not
\* empty, and the metadata repeats total, page and page_size.
C30_HasNextIffFollowingPage ==
    (page_pc = "done" /\ paging.page >= 1 /\ paging.page_size \in 1..PageSizeLimit
                      /\ total >= 0)
    => /\ page_meta.has_next = (page_slice # <<>>)
       /\ page_meta.total = total
       /\ page_meta.page = paging.page
       /\ page_meta.page_size = paging.page_size

\* The last page of a list that ends exactly at the end of the page: nothing
\* follows it.
C30_Witness ==
    /\ page_pc = "done"
    /\ paging.page = 2 /\ paging.page_size = PageSizeLimit /\ total = DemoTotal
    /\ ~page_meta.has_next
    /\ page_slice = <<>>


\* ================================================= threads logging together

\* The records each thread logs.
MaxRecords == 2

\* setup_logger without its early return: it adds its handlers on every call.
setup_logger_unguarded(handlers) == handlers \o HandlersFor(settings)

\* setup_logger("app"): the handlers it leaves on the logger. A logger that
\* has handlers is returned as it is.
setup_logger(handlers) ==
    IF handlers # <<>> THEN handlers ELSE HandlersFor(settings)

\* How many of the handlers are of this kind.
CountOf(handlers, kind) == Cardinality({i \in 1..Len(handlers) : handlers[i] = kind})

\* The configurations the threads are observed under: no database handler,
\* and a database handler that takes records from ERROR on.
ThreadConfigurations ==
    { DefaultSettings,
      MakeSettings(TRUE, "sqlite:///./data/app.db", FALSE, None, FALSE, TRUE, "ERROR") }

\* The process before app.utils is imported: logger "app" has no handlers.
ThreadInit ==
    /\ RequestsInit
    /\ \E s \in ThreadConfigurations : AppInit(s)
    /\ StoreInit /\ PageIdle
    /\ logger_handlers = <<>>
    /\ thread_pc = [t \in Threads |-> "idle"]
    /\ thread_logged = [t \in Threads |-> 0]
    /\ handler_lock = None

lifespanVars == <<settings, pc, pending, db_ready, cache_ready, db_engine, redis,
                  tracer_provider, now, raised, initialized, init_result,
                  released, probe_response, served>>

\* The import of app.utils: logger = setup_logger("app"), the first call.
ImportUtils ==
    /\ logger_handlers = <<>>
    /\ logger_handlers' = setup_logger(logger_handlers)
    /\ UNCHANGED <<thread_pc, thread_logged, handler_lock, engine_instance>>
    /\ UNCHANGED sinkVars

\* init_db makes the engine visible: set_db_engine(engine).
SetDbEngine ==
    /\ engine_instance = None
    /\ settings.db_enabled
    /\ engine_instance' = "engine"
    /\ UNCHANGED threadVars
    /\ UNCHANGED sinkVars

\* A thread calls get_logger(component), which calls setup_logger("app").
GetLogger(t) ==
    /\ logger_handlers # <<>>
    /\ thread_pc[t] = "idle"
    /\ thread_logged[t] < MaxRecords
    /\ logger_handlers' = setup_logger(logger_handlers)
    /\ thread_pc' = [thread_pc EXCEPT ![t] = "log"]
    /\ UNCHANGED <<thread_logged, handler_lock, engine_instance>>
    /\ UNCHANGED sinkVars

\* The thread logs a record: the logger hands it to its handlers in order.
\* The console and the file handler write it; the DatabaseHandler, when the
\* logger has one and the level reaches its level, is called next.
CallHandlers(t) ==
    /\ thread_pc[t] = "log"
    /\ \E level \in {"INFO", "ERROR"} :
          LET handled == /\ CountOf(logger_handlers, "database") > 0
                         /\ LevelNo(level) >= LevelNo(settings.db_logging_level)
          IN  /\ thread_pc' = [thread_pc EXCEPT ![t] = IF handled THEN "acquire" ELSE "idle"]
              /\ thread_logged' = [thread_logged EXCEPT ![t] = IF handled THEN @ ELSE @ + 1]
    /\ log_calls' = log_calls + 1
    /\ console' = console + CountOf(logger_handlers, "console")
    /\ file' = file + CountOf(logger_handlers, "file")
    /\ UNCHANGED <<logger_handlers, handler_lock, engine_instance, is_active,
                   table_created, last_error_time, db_writes, schema_attempts,
                   stderr, raised, diagnostics>>

\* Handler.handle without its lock.
Acquire_unlocked(t) ==
    /\ thread_pc[t] = "acquire"
    /\ handler_lock' = t
    /\ thread_pc' = [thread_pc EXCEPT ![t] = "emit"]
    /\ UNCHANGED <<logger_handlers, thread_logged, engine_instance>>
    /\ UNCHANGED sinkVars

\* Handler.handle takes the handler's lock before it calls emit.
Acquire(t) ==
    /\ thread_pc[t] = "acquire"
    /\ handler_lock = None
    /\ handler_lock' = t
    /\ thread_pc' = [thread_pc EXCEPT ![t] = "emit"]
    /\ UNCHANGED <<logger_handlers, thread_logged, engine_instance>>
    /\ UNCHANGED sinkVars

\* What _log_error leaves when it is called in this step.
Diagnose ==
    /\ diagnostics' = diagnostics + 1
    /\ stderr' = stderr \o log_error(now).out
    /\ last_error_time' = log_error(now).last_error_time

\* emit reads is_active and asks for the engine (lines 95-100, 126-134).
EmitCheck(t) ==
    /\ thread_pc[t] = "emit"
    /\ IF ~is_active
       THEN /\ thread_pc' = [thread_pc EXCEPT ![t] =
                                IF engine_instance = None THEN "release" ELSE "activate"]
            /\ UNCHANGED <<is_active, diagnostics, stderr, last_error_time>>
       ELSE IF engine_instance = None
       THEN /\ is_active' = FALSE
            /\ Diagnose
            /\ thread_pc' = [thread_pc EXCEPT ![t] = "release"]
       ELSE /\ thread_pc' = [thread_pc EXCEPT ![t] = "insert"]
            /\ UNCHANGED <<is_active, diagnostics, stderr, last_error_time>>
    /\ UNCHANGED <<logger_handlers, thread_logged, handler_lock, engine_instance,
                   table_created, log_calls, console, file, db_writes,
                   schema_attempts, raised>>

\* self.is_active = True (line 101).
EmitActivate(t) ==
    /\ thread_pc[t] = "activate"
    /\ is_active' = TRUE
    /\ thread_pc' = [thread_pc EXCEPT ![t] = "create"]
    /\ UNCHANGED <<logger_handlers, thread_logged, handler_lock, engine_instance,
                   table_created, last_error_time, log_calls, console, file,
                   db_writes, schema_attempts, stderr, raised, diagnostics>>

\* The creation of the table (lines 103-121) and the return of line 123.
EmitCreate(t) ==
    /\ thread_pc[t] = "create"
    /\ \E o \in StorageOutcomes :
          /\ schema_attempts' = Append(schema_attempts,
                                       [by |-> "emit", table |-> SinkTable, result |-> o])
          /\ table_created' = (CASE o = "ok" -> TRUE
                                 [] o = "execute_fails" -> table_created
                                 [] OTHER -> FALSE)
          /\ IF o = "ok"
             THEN UNCHANGED <<diagnostics, stderr, last_error_time>>
             ELSE Diagnose
    /\ thread_pc' = [thread_pc EXCEPT ![t] = "release"]
    /\ UNCHANGED <<logger_handlers, thread_logged, handler_lock, engine_instance,
                   is_active, log_calls, console, file, db_writes, raised>>

\* The INSERT of the record (lines 137-164), or the except clause (166-170).
EmitInsert(t) ==
    /\ thread_pc[t] = "insert"
    /\ \E o \in StorageOutcomes :
          IF o = "ok"
          THEN /\ db_writes' = db_writes + 1
               /\ UNCHANGED <<table_created, diagnostics, stderr, last_error_time>>
          ELSE /\ table_created' = FALSE
               /\ Diagnose
               /\ UNCHANGED db_writes
    /\ thread_pc' = [thread_pc EXCEPT ![t] = "release"]
    /\ UNCHANGED <<logger_handlers, thread_logged, handler_lock, engine_instance,
                   is_active, log_calls, console, file, schema_attempts, raised>>

\* emit has returned: Handler.handle releases the lock.
ReleaseLock(t) ==
    /\ thread_pc[t] = "release"
    /\ handler_lock' = (IF handler_lock = t THEN None ELSE handler_lock)
    /\ thread_pc' = [thread_pc EXCEPT ![t] = "idle"]
    /\ thread_logged' = [thread_logged EXCEPT ![t] = @ + 1]
    /\ UNCHANGED <<logger_handlers, engine_instance>>
    /\ UNCHANGED sinkVars

ThreadNext ==
    \/ ImportUtils /\ UNCHANGED <<requestVars, storeVars, pageVars, lifespanVars>>
    \/ SetDbEngine /\ UNCHANGED <<requestVars, storeVars, pageVars, lifespanVars>>
    \/ \E t \in Threads :
          \/ GetLogger(t) /\ UNCHANGED <<requestVars, storeVars, pageVars, lifespanVars>>
          \/ CallHandlers(t) /\ UNCHANGED <<requestVars, storeVars, pageVars, lifespanVars>>
          \/ Acquire(t) /\ UNCHANGED <<requestVars, storeVars, pageVars, lifespanVars>>
          \/ EmitCheck(t) /\ UNCHANGED <<requestVars, storeVars, pageVars, lifespanVars>>
          \/ EmitActivate(t) /\ UNCHANGED <<requestVars, storeVars, pageVars, lifespanVars>>
          \/ EmitCreate(t) /\ UNCHANGED <<requestVars, storeVars, pageVars, lifespanVars>>
          \/ EmitInsert(t) /\ UNCHANGED <<requestVars, storeVars, pageVars, lifespanVars>>
          \/ ReleaseLock(t) /\ UNCHANGED <<requestVars, storeVars, pageVars, lifespanVars>>

\* Logger "app" from before its first setup, with threads logging through it
\* while the storage becomes available.
ThreadSpec == ThreadInit /\ [][ThreadNext]_vars

\* ---- C23: when several threads emit records through the same
\* DatabaseHandler while the storage becomes available, the creation of the
\* log table is executed at most once across all of them.
C23_ConcurrentEmitsCreateOnce ==
    Cardinality(AttemptsBy("emit")) <= 1

\* One thread is creating the table while the other waits for the handler
\* with a record of its own.
C23_Witness ==
    /\ thread_pc["t1"] = "create"
    /\ thread_pc["t2"] = "acquire"
    /\ schema_attempts = <<>>

\* ---- C25: setup_logger is idempotent: after any number of calls for logger
\* "app", every get_logger call included, the logger holds exactly the
\* handlers of the first call, one console handler, one file handler and one
\* database handler if and only if database logging is enabled, none of them
\* twice.
C25_SetupLoggerIdempotent ==
    [][ /\ logger_handlers # <<>> => logger_handlers' = logger_handlers
        /\ logger_handlers' # <<>> =>
              /\ CountOf(logger_handlers', "console") = 1
              /\ CountOf(logger_handlers', "file") = 1
              /\ CountOf(logger_handlers', "database") =
                    (IF settings.db_logging_enabled THEN 1 ELSE 0)
              /\ Len(logger_handlers') =
                    2 + (IF settings.db_logging_enabled THEN 1 ELSE 0) ]_vars

\* Both threads have asked for the logger twice after the import, and the
\* logger has its three handlers.
C25_Witness ==
    /\ thread_logged["t1"] = MaxRecords
    /\ thread_logged["t2"] = MaxRecords
    /\ settings.db_logging_enabled
    /\ logger_handlers = <<"console", "file", "database">>
====
